---- MODULE Spec2Model ----
(***************************************************************************)
(* A model of quad_tree<Point, PointIterator, NodeCapacity>                *)
(* (src/quad_tree/quad_tree.h). The template leaves Point open; the model   *)
(* has two instantiations, Point = an array of two ints (the midpoint of   *)
(* split() is C++'s truncating division) and Point = an array of two       *)
(* floats (the midpoint is exact). An int coordinate is modelled by        *)
(* itself, a float coordinate x by the integer x * Unit.                   *)
(* PointIterator is an iterator into the caller's vector of points, which  *)
(* is modelled as the index of the point in that vector.                   *)
(*                                                                         *)
(* A node of the tree is named by the path that leads to it from the root  *)
(* (the root is << >>); the four shared_ptr members of a node hold the     *)
(* name of the child or NULL.                                              *)
(***************************************************************************)
EXTENDS Integers, Sequences, FiniteSets, TLC

\* ------------------------------------------------------------------ bounds

\* The largest template argument NodeCapacity that is instantiated.
MaxCapacity == 2

\* The number of points in the caller's collection.
NumPoints == 3

\* How often the caller passes the same iterator to add().
MaxCalls == 2

\* How many calls of add(it) are made on the root in all.
MaxAdds == 3

\* How often the caller calls split() itself.
MaxSplits == 1

\* The number of steps a float coordinate is counted in between two whole
\* numbers. A tree of the model is at most MaxAdds levels deep (every level
\* but the one a split() of the caller makes costs a call of add), and the
\* narrowest root is 1 wide, so every midpoint is a whole number of steps.
Unit == 2 ^ MaxAdds

\* The coordinates of the grid the boundaries are taken from.
Coord == {-2, -1, 0, 1}

\* The points a caller puts into its collection.
PointChoices == {<<-2, -2>>, <<0, 0>>, <<0, 1>>, <<1, 1>>}

\* The boundaries the caller constructs a tree from in Spec.
RootChoices ==
    { [first |-> <<-2, -2>>, second |-> <<1, 1>>],
      [first |-> <<-2, -2>>, second |-> <<0, 0>>],
      [first |-> <<-2, -2>>, second |-> <<-1, -1>>],
      [first |-> <<0, 0>>,   second |-> <<1, 1>>],
      [first |-> <<0, 0>>,   second |-> <<0, 1>>],
      [first |-> <<1, 1>>,   second |-> <<0, 0>>] }

\* Every pair of corners on the grid, valid or not.
AllBoundaries == [first : Coord \X Coord, second : Coord \X Coord]

Handles == 1..NumPoints

\* The instantiations and builds: whether Point has float components, and
\* whether NDEBUG is defined. With float components no boundary of the model
\* is refused in split(), the assertion of has_children() never fails and
\* NDEBUG makes no difference; one build stands for both.
Builds == {<<FALSE, FALSE>>, <<FALSE, TRUE>>, <<TRUE, FALSE>>}

\* ------------------------------------------------------------------ state

VARIABLES
    NodeCapacity, \* the template argument of the instantiation
    FloatPoint, \* whether the components of Point are floats (else ints)
    points,     \* the caller's collection: handle -> Point
    nodes,      \* the tree: path -> node; the empty function when no tree exists
    NDEBUG,     \* whether the build compiles assert() away
    op,         \* the last operation the caller ran
    arg,        \* its arguments (boundary corners, handles)
    ret,        \* its result: a return value or the exception it threw
    calls,      \* handle -> number of add(it) calls made with it
    accepted,   \* number of add(it) calls on the root that returned true
    thrown,     \* whether a call on the tree ended in an exception
    splits,     \* number of split() calls the caller made itself
    out         \* the text the last operation wrote to the stream

vars == <<NodeCapacity, FloatPoint, points, nodes, NDEBUG, op, arg, ret, calls, accepted, thrown, splits, out>>

NULL == <<"null">>

Root == << >>

\* The two ways a call can end the process: the failed assertion of
\* has_children(), and the use of an empty shared_ptr when the assertion is
\* compiled away.
Fatal == {"assert", "segv"}

\* ------------------------------------------------------------------ code

\* What stands for the coordinate 1 in the instantiation.
One == IF FloatPoint THEN Unit ELSE 1

\* The Point with the coordinates p and the Boundary with the corners of b.
AsPoint(p) == <<p[1] * One, p[2] * One>>

AsBoundary(b) == [first |-> AsPoint(b.first), second |-> AsPoint(b.second)]

\* s / 2 for the sum s of two coordinates: C++ division of ints truncates
\* toward zero; division of floats is exact (s is a whole even number of
\* steps).
Half(s) == IF FloatPoint \/ s >= 0 THEN s \div 2 ELSE -((-s) \div 2)

\* check_boundary() that calls a boundary degenerate only when the corners
\* are equal on both axes.
check_boundary_both_axes(b) ==
    IF b.first[1] = b.second[1] /\ b.first[2] = b.second[2]
    THEN "degenerate"
    ELSE IF b.first[1] > b.second[1] \/ b.first[2] > b.second[2]
         THEN "inverted"
         ELSE "ok"

\* check_boundary() with the two tests in the other order.
check_boundary_inverted_first(b) ==
    IF b.first[1] > b.second[1] \/ b.first[2] > b.second[2]
    THEN "inverted"
    ELSE IF b.first[1] = b.second[1] \/ b.first[2] = b.second[2]
         THEN "degenerate"
         ELSE "ok"

check_boundary(b) ==
    IF b.first[1] = b.second[1] \/ b.first[2] = b.second[2]
    THEN "degenerate"
    ELSE IF b.first[1] > b.second[1] \/ b.first[2] > b.second[2]
         THEN "inverted"
         ELSE "ok"

\* point_intersects_boundary() with the lower right corner excluded.
point_intersects_boundary_half_open(b, p) ==
    /\ p[1] >= b.first[1]
    /\ p[2] >= b.first[2]
    /\ p[1] < b.second[1]
    /\ p[2] < b.second[2]

point_intersects_boundary(b, p) ==
    /\ p[1] >= b.first[1]
    /\ p[2] >= b.first[2]
    /\ p[1] <= b.second[1]
    /\ p[2] <= b.second[2]

\* The members of a node as the constructors leave them.
new_node(b) ==
    [ m_north_west |-> NULL, m_north_east |-> NULL,
      m_south_west |-> NULL, m_south_east |-> NULL,
      m_boundary |-> b, m_points |-> {}, m_level |-> 0 ]

\* has_children(): "assert" when the assertion fails in a build with
\* assertions, else whether m_north_west is set.
has_children(node, nd) ==
    LET all == /\ node.m_north_west # NULL /\ node.m_north_east # NULL
               /\ node.m_south_west # NULL /\ node.m_south_east # NULL
        none == /\ node.m_north_west = NULL /\ node.m_north_east = NULL
                /\ node.m_south_west = NULL /\ node.m_south_east = NULL
    IN  IF ~nd /\ ~(all \/ none) THEN "assert"
        ELSE IF node.m_north_west # NULL THEN "true" ELSE "false"

\* add() with the south east child forgotten.
AddOrder_without_south_east == <<"m_north_west", "m_north_east", "m_south_west">>

\* The order in which add() asks the children.
AddOrder == <<"m_north_west", "m_north_east", "m_south_west", "m_south_east">>

\* The order in which split() creates the children.
CreateOrder == <<"m_north_west", "m_north_east", "m_south_east", "m_south_west">>

\* The order in which split() asks the children when it distributes.
DistributeOrder == <<"m_north_west", "m_north_east", "m_south_east", "m_south_west">>

center(b) ==
    << Half(b.second[1] + b.first[1]), Half(b.second[2] + b.first[2]) >>

\* child_boundary() with a north east child that reaches down to the lower
\* right corner.
child_boundary_tall_north_east(b, q) ==
    LET c == center(b)
        upper_left == b.first
        lower_right == b.second
    IN  CASE q = "m_north_west" -> [first |-> upper_left, second |-> c]
          [] q = "m_north_east" ->
                [first |-> <<c[1], upper_left[2]>>, second |-> lower_right]
          [] q = "m_south_east" -> [first |-> c, second |-> lower_right]
          [] q = "m_south_west" ->
                [first |-> <<upper_left[1], c[2]>>, second |-> <<c[1], lower_right[2]>>]

\* The boundary split() gives to the child in slot q of a node with boundary b.
child_boundary(b, q) ==
    LET c == center(b)
        upper_left == b.first
        lower_right == b.second
    IN  CASE q = "m_north_west" -> [first |-> upper_left, second |-> c]
          [] q = "m_north_east" ->
                [first |-> <<c[1], upper_left[2]>>, second |-> <<lower_right[1], c[2]>>]
          [] q = "m_south_east" -> [first |-> c, second |-> lower_right]
          [] q = "m_south_west" ->
                [first |-> <<upper_left[1], c[2]>>, second |-> <<c[1], lower_right[2]>>]

\* The handles of a std::set<PointIterator> in the order it iterates them.
RECURSIVE in_order(_)
in_order(S) ==
    IF S = {} THEN << >>
    ELSE LET m == CHOOSE x \in S : \A y \in S : x <= y
         IN  <<m>> \o in_order(S \ {m})

RECURSIVE add(_, _, _, _)
RECURSIVE ask_children(_, _, _, _, _, _)
RECURSIVE create_children(_, _, _)
RECURSIVE distribute(_, _, _, _, _)

\* The chain of "if (true == child->add(it)) ..." over the slots of `order`
\* from position i on, ending in the logic_error when no child accepts.
ask_children(T, n, h, nd, order, i) ==
    IF i > Len(order) THEN [nodes |-> T, ret |-> "logic_error"]
    ELSE LET child == T[n][order[i]]
         IN  IF child = NULL THEN [nodes |-> T, ret |-> "segv"]
             ELSE LET r == add(T, child, h, nd)
                  IN  IF r.ret = "false"
                      THEN ask_children(r.nodes, n, h, nd, order, i + 1)
                      ELSE r

\* Node m is node c or lies below it.
is_below(c, m) == Len(m) >= Len(c) /\ SubSeq(m, 1, Len(c)) = c

\* The tree without the node c and the nodes below it: what is left when
\* the shared_ptr that owns c is assigned another object.
release(T, c) == [m \in {x \in DOMAIN T : ~is_below(c, x)} |-> T[m]]

\* split(), first half: the four children, created in CreateOrder. The
\* constructor of a child throws before the member is assigned; the
\* assignment releases the child the member held before.
create_children(T, n, i) ==
    IF i > Len(CreateOrder) THEN [nodes |-> T, ret |-> "ok"]
    ELSE LET q == CreateOrder[i]
             b == child_boundary(T[n].m_boundary, q)
             c == Append(n, q)
         IN  IF check_boundary(b) # "ok"
             THEN [nodes |-> T, ret |-> check_boundary(b)]
             ELSE create_children(
                    (c :> [new_node(b) EXCEPT !.m_level = T[n].m_level + 1]) @@
                        [release(T, c) EXCEPT ![n][q] = c],
                    n, i + 1)

\* split(), the loop over m_points: it leaves the loop after the first handle
\* that a child accepted.
distribute(T, n, nd, its, i) ==
    IF i > Len(its) THEN [nodes |-> T, ret |-> "ok"]
    ELSE LET r == ask_children(T, n, its[i], nd, DistributeOrder, 1)
         IN  IF r.ret = "true" THEN [nodes |-> r.nodes, ret |-> "ok"]
             ELSE r

\* split() without the m_points.clear() at its end.
split_without_clear(T, n, nd) ==
    LET c == create_children(T, n, 1)
    IN  IF c.ret # "ok" THEN c
        ELSE distribute(c.nodes, n, nd, in_order(c.nodes[n].m_points), 1)

\* split(), its end: m_points.clear() when the loop, which gave d, ended
\* without an exception.
clear_points(d, n) ==
    IF d.ret # "ok" THEN d
    ELSE [nodes |-> [d.nodes EXCEPT ![n].m_points = {}], ret |-> "ok"]

\* split(), second half: the loop and the clear() when creating the
\* children, which gave c, ended without an exception.
distribute_points(c, n, nd) ==
    IF c.ret # "ok" THEN c
    ELSE clear_points(distribute(c.nodes, n, nd, in_order(c.nodes[n].m_points), 1), n)

split(T, n, nd) == distribute_points(create_children(T, n, 1), n, nd)

\* add() that splits a leaf only when it stores more than NodeCapacity handles.
add_room_for_one_more(T, n, h, nd) ==
    IF ~point_intersects_boundary(T[n].m_boundary, points[h])
    THEN [nodes |-> T, ret |-> "false"]
    ELSE LET hc == has_children(T[n], nd)
         IN  IF hc = "assert" THEN [nodes |-> T, ret |-> "assert"]
             ELSE IF hc = "true" THEN ask_children(T, n, h, nd, AddOrder, 1)
             ELSE IF Cardinality(T[n].m_points) <= NodeCapacity
             THEN [nodes |-> [T EXCEPT ![n].m_points = @ \cup {h}], ret |-> "true"]
             ELSE LET s == split(T, n, nd)
                  IN  IF s.ret = "ok" THEN [nodes |-> s.nodes, ret |-> "true"]
                      ELSE s

\* bool add(PointIterator): the tree afterwards and what the call returned
\* ("true", "false") or how it ended otherwise.
add(T, n, h, nd) ==
    IF ~point_intersects_boundary(T[n].m_boundary, points[h])
    THEN [nodes |-> T, ret |-> "false"]
    ELSE LET hc == has_children(T[n], nd)
         IN  IF hc = "assert" THEN [nodes |-> T, ret |-> "assert"]
             ELSE IF hc = "true" THEN ask_children(T, n, h, nd, AddOrder, 1)
             ELSE IF Cardinality(T[n].m_points) < NodeCapacity
             THEN [nodes |-> [T EXCEPT ![n].m_points = @ \cup {h}], ret |-> "true"]
             ELSE LET s == split(T, n, nd)
                  IN  IF s.ret = "ok" THEN [nodes |-> s.nodes, ret |-> "true"]
                      ELSE s

\* The nodes whose add() runs in the call add(it) on node n, the calls that
\* split() makes on the children it created aside: n itself and, when n
\* contains the point and has children, the nodes of the calls
\* "child->add(it)" on its children, which add() makes in AddOrder up to the
\* first that does not return false.
RECURSIVE add_visits(_, _, _, _)
RECURSIVE ask_visits(_, _, _, _, _)
ask_visits(T, n, h, nd, i) ==
    IF i > Len(AddOrder) THEN {}
    ELSE LET child == T[n][AddOrder[i]]
         IN  IF child = NULL THEN {}
             ELSE add_visits(T, child, h, nd) \cup
                  LET r == add(T, child, h, nd)
                  IN  IF r.ret = "false" THEN ask_visits(r.nodes, n, h, nd, i + 1)
                      ELSE {}

add_visits(T, n, h, nd) ==
    {n} \cup
    IF /\ point_intersects_boundary(T[n].m_boundary, points[h])
       /\ has_children(T[n], nd) = "true"
    THEN ask_visits(T, n, h, nd, 1)
    ELSE {}

\* The loop of add(PointIterator, PointIterator) from `it` on. rets lists
\* what the calls add(it) made so far returned; r is the outcome of the call
\* for `it`, and a call that does not return ends the loop.
RECURSIVE add_range_loop(_, _, _, _, _)
add_range_step(r, it, end, nd, rets) ==
    IF r.ret \in {"true", "false"}
    THEN add_range_loop(r.nodes, it + 1, end, nd, Append(rets, r.ret))
    ELSE [nodes |-> r.nodes, ret |-> r.ret, rets |-> Append(rets, r.ret)]

add_range_loop(T, it, end, nd, rets) ==
    IF it = end THEN [nodes |-> T, ret |-> "ok", rets |-> rets]
    ELSE add_range_step(add(T, Root, it, nd), it, end, nd, rets)

\* void add(PointIterator, PointIterator) on the root: add(it) for the
\* handles begin .. end-1.
add_range(T, begin, end, nd) == add_range_loop(T, begin, end, nd, << >>)

\* The bounding box the range constructor computes over begin .. end-1.
RECURSIVE bounding_box(_, _, _)
bounding_box(b, it, end) ==
    IF it = end THEN b
    ELSE LET p == points[it]
             f1 == IF p[1] < b.first[1] THEN p[1] ELSE b.first[1]
             f2 == IF p[2] < b.first[2] THEN p[2] ELSE b.first[2]
             s1 == IF p[1] > b.second[1] THEN p[1] ELSE b.second[1]
             s2 == IF p[2] > b.second[2] THEN p[2] ELSE b.second[2]
         IN  bounding_box([first |-> <<f1, f2>>, second |-> <<s1, s2>>], it + 1, end)

NoTree == [n \in {} |-> NULL]

\* quad_tree(const Boundary &): a root that is an empty leaf, or no object.
quad_tree_boundary(b) ==
    IF check_boundary(b) # "ok"
    THEN [nodes |-> NoTree, ret |-> check_boundary(b), rets |-> << >>]
    ELSE [nodes |-> (Root :> new_node(b)), ret |-> "ok", rets |-> << >>]

\* quad_tree(const Boundary &, PointIterator, PointIterator): the body only
\* checks the boundary.
quad_tree_boundary_range(b, begin, end) ==
    IF check_boundary(b) # "ok"
    THEN [nodes |-> NoTree, ret |-> check_boundary(b), rets |-> << >>]
    ELSE [nodes |-> (Root :> new_node(b)), ret |-> "ok", rets |-> << >>]

\* The object after the body of a constructor ended with r: an exception
\* destroys the members.
unwind(r) == IF r.ret = "ok" THEN r ELSE [r EXCEPT !.nodes = NoTree]

\* quad_tree(PointIterator, PointIterator). An exception that leaves the
\* constructor leaves no object behind.
quad_tree_range(begin, end, nd) ==
    IF begin = end THEN [nodes |-> NoTree, ret |-> "empty_range", rets |-> << >>]
    ELSE LET b == bounding_box([first |-> points[begin], second |-> points[begin]],
                               begin, end)
         IN  IF check_boundary(b) # "ok"
             THEN [nodes |-> NoTree, ret |-> check_boundary(b), rets |-> << >>]
             ELSE unwind(add_range((Root :> new_node(b)), begin, end, nd))

\* feed_spaces(): two blanks for every level.
RECURSIVE feed_spaces(_)
feed_spaces(number_of_spaces) ==
    IF number_of_spaces <= 0 THEN ""
    ELSE "  " \o feed_spaces(number_of_spaces - 1)

\* r / Unit, a value below 1, as w decimal digits added to the whole number s.
RECURSIVE decimals(_, _, _)
decimals(s, r, w) ==
    IF w = 0 THEN [s |-> s, r |-> r]
    ELSE decimals(s * 10 + (r * 10) \div Unit, (r * 10) % Unit, w - 1)

\* m * 10^x with m / Unit brought to a value from 1 on.
RECURSIVE leading(_, _)
leading(m, x) ==
    IF m >= Unit THEN [m |-> m, x |-> x] ELSE leading(m * 10, x - 1)

\* s * 10^e without the zeros at the end of s.
RECURSIVE significant(_, _)
significant(s, e) ==
    IF s % 10 = 0 THEN significant(s \div 10, e + 1) ELSE [s |-> s, e |-> e]

\* The last w digits of f.
RECURSIVE fraction_text(_, _)
fraction_text(f, w) ==
    IF w = 0 THEN "" ELSE fraction_text(f \div 10, w - 1) \o ToString(f % 10)

\* The digits g.s * 10^g.e in fixed notation.
shortest_text(g) ==
    IF g.e >= 0 THEN ToString(g.s * 10 ^ g.e)
    ELSE ToString(g.s \div 10 ^ (-g.e)) \o "." \o fraction_text(g.s % 10 ^ (-g.e), -g.e)

\* The six digits d.s with the rest d.r / Unit below them, times 10^(x - 5):
\* rounded to the nearest six digits, a tie to the even digit.
rounded_text(d, x) ==
    IF 2 * d.r > Unit \/ (2 * d.r = Unit /\ d.s % 2 = 1)
    THEN IF d.s + 1 = 1000000 THEN shortest_text(significant(1, x + 1))
         ELSE shortest_text(significant(d.s + 1, x - 5))
    ELSE shortest_text(significant(d.s, x - 5))

\* The value l.m / Unit * 10^l.x with 1 <= l.m / Unit < 10.
leading_text(l) == rounded_text(decimals(l.m \div Unit, l.m % Unit, 5), l.x)

\* operator<<(float) for a / Unit with 0 < a / Unit < 10, as the stream is
\* left by default: six significant digits, rounded to the nearest with
\* ties to the even digit, no zeros at the end. (The values of the model
\* are at least 0.0001, below which the stream writes an exponent.)
float_text(a) == leading_text(leading(a, 0))

\* float_text for every magnitude a coordinate of the model has.
float_texts ==
    LET sizes == {IF c < 0 THEN -c ELSE c : c \in Coord}
        far == CHOOSE m \in sizes : \A c \in sizes : c <= m
    IN  [a \in 1..(far * Unit) |-> float_text(a)]

\* o << component.
component_text(v) ==
    IF ~FloatPoint THEN ToString(v)
    ELSE IF v = 0 THEN "0"
    ELSE IF v < 0 THEN "-" \o float_texts[-v]
    ELSE float_texts[v]

\* The loop of operator<< over m_points: "[x y] " for every stored handle,
\* in the order of the set.
RECURSIVE print_points(_, _)
print_points(its, i) ==
    IF i > Len(its) THEN ""
    ELSE "[" \o component_text(points[its[i]][1]) \o " " \o component_text(points[its[i]][2])
             \o "] " \o print_points(its, i + 1)

\* What operator<< writes for the node itself, up to std::endl.
print_node(node) ==
    feed_spaces(node.m_level)
        \o "Node [" \o component_text(node.m_boundary.first[1]) \o " "
        \o component_text(node.m_boundary.first[2]) \o "] ["
        \o component_text(node.m_boundary.second[1]) \o " "
        \o component_text(node.m_boundary.second[2]) \o "] => ( "
        \o print_points(in_order(node.m_points), 1) \o ")\n"

\* operator<< with the children written in the order add() asks them.
PrintOrder_as_AddOrder == AddOrder

\* The order in which operator<< writes the children.
PrintOrder == <<"m_north_west", "m_north_east", "m_south_east", "m_south_west">>

RECURSIVE print_tree(_, _, _)
RECURSIVE print_children(_, _, _, _, _, _)

\* The text after the child written last ended with r.
print_child_done(r, T, n, nd, o, order, i) ==
    IF r.ret # "ok" THEN [out |-> o \o r.out, ret |-> r.ret]
    ELSE print_children(T, n, nd, o \o r.out, order, i + 1)

\* "o << *tree.m_north_west; ..." over the slots of `order` from position i
\* on, after the text o; an empty shared_ptr ends the process.
print_children(T, n, nd, o, order, i) ==
    IF i > Len(order) THEN [out |-> o, ret |-> "ok"]
    ELSE IF T[n][order[i]] = NULL THEN [out |-> o, ret |-> "segv"]
    ELSE print_child_done(print_tree(T, T[n][order[i]], nd), T, n, nd, o, order, i)

\* operator<<(o, tree) on node n: the text written to o and how the call
\* ended.
print_tree(T, n, nd) ==
    IF has_children(T[n], nd) = "assert"
    THEN [out |-> print_node(T[n]), ret |-> "assert"]
    ELSE IF has_children(T[n], nd) = "false"
    THEN [out |-> print_node(T[n]), ret |-> "ok"]
    ELSE print_children(T, n, nd, print_node(T[n]), PrintOrder, 1)

\* ------------------------------------------------------------------ actions

HasTree == DOMAIN nodes # {}

\* The number of add(it) calls made on the root so far.
RECURSIVE sum_calls(_)
sum_calls(H) ==
    IF H = {} THEN 0
    ELSE LET h == CHOOSE x \in H : TRUE
         IN  calls[h] + sum_calls(H \ {h})

\* The caller has n more calls of add(it) to make.
CanAdd(n) == sum_calls(Handles) + n <= MaxAdds

Running == ret \notin Fatal

\* The bookkeeping of the add(it) calls made on the root with the handles
\* begin, begin+1, ... whose results are rets.
RECURSIVE count_calls(_, _, _)
count_calls(c, begin, rets) ==
    IF rets = << >> THEN c
    ELSE count_calls([c EXCEPT ![begin] = @ + 1], begin + 1, Tail(rets))

Trues(rets) == Cardinality({i \in 1..Len(rets) : rets[i] = "true"})

Corners(b) == <<b.first[1], b.first[2], b.second[1], b.second[2]>>

\* The caller's view after a constructor ended with r: the calls add(it) it
\* made, from the handle begin on, count when an object exists.
Constructed(r, begin) ==
    /\ nodes' = r.nodes
    /\ ret' = r.ret
    /\ calls' = IF r.ret = "ok" THEN count_calls(calls, begin, r.rets) ELSE calls
    /\ accepted' = IF r.ret = "ok" THEN accepted + Trues(r.rets) ELSE accepted

\* The outcome r of one call add(it), with the list of what it returned.
OneCall(r) == [nodes |-> r.nodes, ret |-> r.ret, rets |-> <<r.ret>>]

\* The caller's view after add(it) or add(begin, end) ended with r.
Added(r, begin) ==
    /\ nodes' = r.nodes
    /\ ret' = r.ret
    /\ calls' = count_calls(calls, begin, r.rets)
    /\ accepted' = accepted + Trues(r.rets)
    /\ thrown' = (thrown \/ r.ret \notin {"ok", "true", "false"})

ConstructBoundary(b) ==
    /\ ~HasTree /\ Running
    /\ LET r == quad_tree_boundary(AsBoundary(b))
       IN  /\ nodes' = r.nodes
           /\ ret' = r.ret
    /\ op' = "quad_tree_boundary"
    /\ out' = ""
    /\ arg' = Corners(AsBoundary(b))
    /\ UNCHANGED <<NodeCapacity, FloatPoint, points, NDEBUG, calls, accepted, thrown, splits>>

ConstructBoundaryRange(b, begin, end) ==
    /\ ~HasTree /\ Running
    /\ LET r == quad_tree_boundary_range(AsBoundary(b), begin, end)
       IN  /\ nodes' = r.nodes
           /\ ret' = r.ret
    /\ op' = "quad_tree_boundary_range"
    /\ out' = ""
    /\ arg' = Corners(AsBoundary(b)) \o <<begin, end>>
    /\ UNCHANGED <<NodeCapacity, FloatPoint, points, NDEBUG, calls, accepted, thrown, splits>>

ConstructRange(begin, end) ==
    /\ ~HasTree /\ Running
    /\ CanAdd(end - begin)
    /\ Constructed(quad_tree_range(begin, end, NDEBUG), begin)
    /\ op' = "quad_tree_range"
    /\ out' = ""
    /\ arg' = <<begin, end>>
    /\ UNCHANGED <<NodeCapacity, FloatPoint, points, NDEBUG, thrown, splits>>

Add(h) ==
    /\ HasTree /\ Running
    /\ calls[h] < MaxCalls
    /\ CanAdd(1)
    /\ Added(OneCall(add(nodes, Root, h, NDEBUG)), h)
    /\ op' = "add"
    /\ out' = ""
    /\ arg' = <<h>>
    /\ UNCHANGED <<NodeCapacity, FloatPoint, points, NDEBUG, splits>>

AddRange(begin, end) ==
    /\ HasTree /\ Running
    /\ \A h \in begin..(end - 1) : calls[h] < MaxCalls
    /\ CanAdd(end - begin)
    /\ Added(add_range(nodes, begin, end, NDEBUG), begin)
    /\ op' = "add_range"
    /\ out' = ""
    /\ arg' = <<begin, end>>
    /\ UNCHANGED <<NodeCapacity, FloatPoint, points, NDEBUG, splits>>

\* What the caller sees of the result r of its split().
Splitted(r) ==
    /\ nodes' = r.nodes
    /\ ret' = r.ret
    /\ thrown' = (thrown \/ r.ret # "ok")

\* tree.split(), called by the owner of the tree: split() is a public
\* member.
Split ==
    /\ HasTree /\ Running
    /\ splits < MaxSplits
    /\ Splitted(split(nodes, Root, NDEBUG))
    /\ op' = "split"
    /\ arg' = << >>
    /\ out' = ""
    /\ splits' = splits + 1
    /\ UNCHANGED <<NodeCapacity, FloatPoint, points, NDEBUG, calls, accepted>>

\* std::cout << tree.
Format ==
    /\ HasTree /\ Running
    /\ LET r == print_tree(nodes, Root, NDEBUG)
       IN  /\ out' = r.out
           /\ ret' = r.ret
           /\ thrown' = (thrown \/ r.ret # "ok")
    /\ op' = "operator<<"
    /\ arg' = << >>
    /\ UNCHANGED <<NodeCapacity, FloatPoint, points, nodes, NDEBUG, calls, accepted, splits>>

Ranges == {r \in (1..(NumPoints + 1)) \X (1..(NumPoints + 1)) : r[1] <= r[2]}

Init ==
    /\ NodeCapacity \in 1..MaxCapacity
    /\ \E b \in Builds : FloatPoint = b[1] /\ NDEBUG = b[2]
    /\ points \in [Handles -> {AsPoint(p) : p \in PointChoices}]
    /\ nodes = NoTree
    /\ op = "none"
    /\ arg = << >>
    /\ ret = "none"
    /\ calls = [h \in Handles |-> 0]
    /\ accepted = 0
    /\ thrown = FALSE
    /\ splits = 0
    /\ out = ""

Next ==
    \/ \E b \in RootChoices : ConstructBoundary(b)
    \/ \E b \in RootChoices : \E r \in Ranges : ConstructBoundaryRange(b, r[1], r[2])
    \/ \E r \in Ranges : ConstructRange(r[1], r[2])
    \/ \E h \in Handles : Add(h)
    \/ \E r \in Ranges : AddRange(r[1], r[2])
    \/ Split
    \/ Format

Spec == Init /\ [][Next]_vars

\* Only the boundary constructor, on every pair of corners of the grid. The
\* constructor reads no point, so one collection stands for all.
InitCtor == Init /\ \A h \in Handles : points[h] = AsPoint(<<1, 1>>)

NextCtor == \E b \in AllBoundaries : ConstructBoundary(b)

SpecCtor == InitCtor /\ [][NextCtor]_vars

\* Only the constructor from a range, on every range of every collection.
NextRange == \E r \in Ranges : ConstructRange(r[1], r[2])

SpecRange == Init /\ [][NextRange]_vars

\* ------------------------------------------------------------------ claims

IsLeaf(node) ==
    /\ node.m_north_west = NULL /\ node.m_north_east = NULL
    /\ node.m_south_west = NULL /\ node.m_south_east = NULL

IsInternal(node) ==
    /\ node.m_north_west # NULL /\ node.m_north_east # NULL
    /\ node.m_south_west # NULL /\ node.m_south_east # NULL

Leaves(T) == {n \in DOMAIN T : IsLeaf(T[n])}

RECURSIVE SumPoints(_, _)
SumPoints(T, N) ==
    IF N = {} THEN 0
    ELSE LET n == CHOOSE x \in N : TRUE
         IN  Cardinality(T[n].m_points) + SumPoints(T, N \ {n})

\* The closed rectangle of a boundary, written without the code's test.
InRect(b, p) ==
    /\ b.first[1] <= p[1] /\ p[1] <= b.second[1]
    /\ b.first[2] <= p[2] /\ p[2] <= b.second[2]

HoldersOf(T, h) == {n \in DOMAIN T : h \in T[n].m_points}

EachOnce == \A h \in Handles : calls[h] <= 1

\* C1: when each handle was inserted at most once, the leaves together store
\* as many handles as insert calls returned true.
C1_LeafCountsMatchAccepted ==
    (HasTree /\ EachOnce) => SumPoints(nodes, Leaves(nodes)) = accepted

\* C2: a handle whose insert returned true is stored in exactly one leaf, and
\* the boundary of that leaf contains its point.
C2_AcceptedHandleIsStored ==
    (op = "add" /\ ret = "true" /\ calls[arg[1]] = 1) =>
        /\ Cardinality(HoldersOf(nodes, arg[1])) = 1
        /\ \A n \in HoldersOf(nodes, arg[1]) :
              /\ IsLeaf(nodes[n])
              /\ InRect(nodes[n].m_boundary, points[arg[1]])

\* C3: as long as every call returned normally, every node is a leaf with at
\* most NodeCapacity handles or an internal node with four children and no
\* handle.
C3_LeafOrInternal ==
    (HasTree /\ ~thrown) =>
        \A n \in DOMAIN nodes :
            \/ IsLeaf(nodes[n]) /\ Cardinality(nodes[n].m_points) <= NodeCapacity
            \/ IsInternal(nodes[n]) /\ nodes[n].m_points = {}

C3_Witness ==
    /\ HasTree /\ ~thrown
    /\ \E n \in DOMAIN nodes : IsInternal(nodes[n])
    /\ \E n \in DOMAIN nodes :
          IsLeaf(nodes[n]) /\ Cardinality(nodes[n].m_points) = NodeCapacity

\* The points the rectangles of T are compared on: the crossings of the
\* lines through the corners of the nodes and through the whole coordinates.
Grid(T) ==
    LET xs == {x * One : x \in Coord}
                \cup {T[n].m_boundary.first[1] : n \in DOMAIN T}
                \cup {T[n].m_boundary.second[1] : n \in DOMAIN T}
        ys == {y * One : y \in Coord}
                \cup {T[n].m_boundary.first[2] : n \in DOMAIN T}
                \cup {T[n].m_boundary.second[2] : n \in DOMAIN T}
    IN  xs \X ys

PositiveArea(b) == b.first[1] < b.second[1] /\ b.first[2] < b.second[2]

\* c is the midpoint of lo and hi: exactly for floats, up to the rounding of
\* the division for ints.
IsMidpoint(c, lo, hi) ==
    IF FloatPoint THEN 2 * c = lo + hi
    ELSE 2 * c \in {lo + hi - 1, lo + hi, lo + hi + 1}

Tiles(T, n) ==
    LET b  == T[n].m_boundary
        ul == b.first
        lr == b.second
        nw == T[T[n].m_north_west].m_boundary
        ne == T[T[n].m_north_east].m_boundary
        se == T[T[n].m_south_east].m_boundary
        sw == T[T[n].m_south_west].m_boundary
        c  == nw.second
        kids == {nw, ne, se, sw}
    IN  /\ IsMidpoint(c[1], ul[1], lr[1]) /\ IsMidpoint(c[2], ul[2], lr[2])
        /\ nw = [first |-> ul, second |-> c]
        /\ ne = [first |-> <<c[1], ul[2]>>, second |-> <<lr[1], c[2]>>]
        /\ se = [first |-> c, second |-> lr]
        /\ sw = [first |-> <<ul[1], c[2]>>, second |-> <<c[1], lr[2]>>]
        /\ \A p \in Grid(T) : InRect(b, p) <=> \E k \in kids : InRect(k, p)
        /\ \A p \in Grid(T) : \A k1, k2 \in kids :
              (k1 # k2 /\ InRect(k1, p) /\ InRect(k2, p)) => (p[1] = c[1] \/ p[2] = c[2])

\* C4: the children of an internal node have the four boundaries around the
\* midpoint, cover the parent exactly and meet only on the lines through the
\* midpoint; every node has positive width and height.
C4_ChildrenTileParent ==
    /\ \A n \in DOMAIN nodes : PositiveArea(nodes[n].m_boundary)
    /\ \A n \in DOMAIN nodes : IsInternal(nodes[n]) => Tiles(nodes, n)

C4_Witness ==
    /\ \E n \in DOMAIN nodes : n # Root /\ IsInternal(nodes[n])
    /\ IsInternal(nodes[Root])

\* C5: an insert of a point outside the root's rectangle returns false and
\* changes no node; an insert of a point in it does not return false.
C5_OutsideRejectedUnchanged ==
    [][ op' = "add" =>
          IF InRect(nodes[Root].m_boundary, points[arg'[1]])
          THEN ret' # "false"
          ELSE ret' = "false" /\ nodes' = nodes ]_vars

C5_Witness ==
    /\ op = "add" /\ ret = "false"
    /\ ~InRect(nodes[Root].m_boundary, points[arg[1]])
    /\ IsInternal(nodes[Root])

\* The slots of node n whose child's rectangle contains p.
Claiming(T, n, p) ==
    {q \in {"m_north_west", "m_north_east", "m_south_west", "m_south_east"} :
        InRect(T[T[n][q]].m_boundary, p)}

\* The nodes below (and including) the child in slot q of the root.
Below(T, q) == {n \in DOMAIN T : Len(n) >= 1 /\ n[1] = q}

\* The first slot in the order north west, north east, south west, south east
\* whose child's rectangle contains p.
FirstClaiming(T, p) ==
    IF "m_north_west" \in Claiming(T, Root, p) THEN "m_north_west"
    ELSE IF "m_north_east" \in Claiming(T, Root, p) THEN "m_north_east"
    ELSE IF "m_south_west" \in Claiming(T, Root, p) THEN "m_south_west"
    ELSE "m_south_east"

\* C6: a point on an edge shared by children of the internal root, inserted
\* once, is stored exactly once, below the first child in the order north
\* west, north east, south west, south east whose boundary contains it.
C6_EdgePointStoredOnce ==
    [][ ( /\ op' = "add" /\ ret' = "true"
          /\ ~thrown /\ calls[arg'[1]] = 0
          /\ IsInternal(nodes[Root])
          /\ Cardinality(Claiming(nodes, Root, points[arg'[1]])) >= 2 )
        => /\ Cardinality(HoldersOf(nodes', arg'[1])) = 1
           /\ HoldersOf(nodes', arg'[1]) \subseteq
                Below(nodes', FirstClaiming(nodes, points[arg'[1]])) ]_vars

MinOf(S) == CHOOSE x \in S : \A y \in S : x <= y

MaxOf(S) == CHOOSE x \in S : \A y \in S : x >= y

\* C7: the range constructor refuses the empty range; when it returns, the
\* root's boundary is the bounding box of the range, every insert of the range
\* returned true and every point of the range is stored.
C7_RangeConstructorStoresAll ==
    op = "quad_tree_range" =>
        LET R == arg[1]..(arg[2] - 1)
        IN  IF R = {} THEN ret = "empty_range"
            ELSE ret = "ok" =>
                   /\ nodes[Root].m_boundary =
                        [first  |-> << MinOf({points[h][1] : h \in R}),
                                       MinOf({points[h][2] : h \in R}) >>,
                         second |-> << MaxOf({points[h][1] : h \in R}),
                                       MaxOf({points[h][2] : h \in R}) >>]
                   /\ accepted = Cardinality(R)
                   /\ SumPoints(nodes, DOMAIN nodes) = Cardinality(R)

\* C8: the tree the constructor from a boundary and a range leaves is the tree
\* of the boundary constructor after inserting the range one point at a time,
\* and stores every point of the range that lies in the boundary.
C8_BoundaryRangeConstructorInserts ==
    (op = "quad_tree_boundary_range" /\ ret = "ok") =>
        LET b == [first |-> <<arg[1], arg[2]>>, second |-> <<arg[3], arg[4]>>]
            r == add_range(quad_tree_boundary(b).nodes, arg[5], arg[6], NDEBUG)
        IN  r.ret = "ok" =>
              /\ nodes = r.nodes
              /\ \A h \in arg[5]..(arg[6] - 1) :
                    InRect(b, points[h]) => HoldersOf(nodes, h) # {}

EmptyLeafTree(b) ==
    /\ DOMAIN nodes = {Root}
    /\ IsLeaf(nodes[Root])
    /\ nodes[Root].m_points = {}
    /\ nodes[Root].m_boundary = b

\* C9 as stated: corners equal on an axis give the degenerate-boundary error,
\* an upper left corner beyond the lower right one on an axis gives the
\* inverted-boundary error, and any other boundary gives an empty leaf.
C9_InvertedAlwaysReported ==
    op = "quad_tree_boundary" =>
        LET ul == <<arg[1], arg[2]>>
            lr == <<arg[3], arg[4]>>
        IN  /\ (ul[1] = lr[1] \/ ul[2] = lr[2]) => ret = "degenerate"
            /\ (ul[1] > lr[1] \/ ul[2] > lr[2]) => ret = "inverted"
            /\ (ul[1] < lr[1] /\ ul[2] < lr[2]) =>
                  ret = "ok" /\ EmptyLeafTree([first |-> ul, second |-> lr])

\* C9 as amended: corners equal on an axis give the degenerate-boundary error,
\* whatever the other axis; the inverted-boundary error is given when the
\* corners are equal on no axis and the upper left corner is beyond the lower
\* right one on an axis; any other boundary gives an empty leaf. A refused
\* boundary leaves no tree.
C9_DegenerateBeforeInverted ==
    op = "quad_tree_boundary" =>
        LET ul == <<arg[1], arg[2]>>
            lr == <<arg[3], arg[4]>>
        IN  /\ (ul[1] = lr[1] \/ ul[2] = lr[2]) => ret = "degenerate" /\ ~HasTree
            /\ ( /\ ul[1] # lr[1] /\ ul[2] # lr[2]
                 /\ (ul[1] > lr[1] \/ ul[2] > lr[2]) ) => ret = "inverted" /\ ~HasTree
            /\ (ul[1] < lr[1] /\ ul[2] < lr[2]) =>
                  ret = "ok" /\ EmptyLeafTree([first |-> ul, second |-> lr])

C9_Witness ==
    /\ op = "quad_tree_boundary" /\ ret = "degenerate"
    /\ arg[1] > arg[3] /\ arg[2] = arg[4]

\* The orders in which the handles of S can be inserted.
Orders(S) ==
    {q \in [1..Cardinality(S) -> S] : \A i, j \in 1..Cardinality(S) : q[i] = q[j] => i = j}

\* The tree after the calls add(q[i]), add(q[i+1]), ... on the root of T.
RECURSIVE AddInOrder(_, _, _)
AddInOrder(T, q, i) ==
    IF i > Len(q) THEN [nodes |-> T, ret |-> "ok"]
    ELSE LET r == add(T, Root, q[i], NDEBUG)
         IN  IF r.ret \in {"true", "false"} THEN AddInOrder(r.nodes, q, i + 1)
             ELSE r

Shape(T) == {<<n, T[n].m_boundary>> : n \in DOMAIN T}

\* C10: the tree has the shape (the nodes and their boundaries) that inserting
\* the same handles in any other order into an empty tree with the same root
\* boundary gives.
C10_ShapeIndependentOfOrder ==
    (HasTree /\ EachOnce /\ ~thrown) =>
        LET S == {h \in Handles : calls[h] = 1}
            empty == (Root :> [nodes[Root] EXCEPT
                         !.m_north_west = NULL, !.m_north_east = NULL,
                         !.m_south_west = NULL, !.m_south_east = NULL,
                         !.m_points = {}])
        IN  \A q \in Orders(S) :
                LET r == AddInOrder(empty, q, 1)
                IN  r.ret = "ok" => Shape(r.nodes) = Shape(nodes)

\* The renamings of the handles under which every handle keeps its
\* coordinates: a second caller's collection with the same points in another
\* order.
Relabelings ==
    {pi \in [Handles -> Handles] :
        /\ \A a, b \in Handles : pi[a] = pi[b] => a = b
        /\ \A h \in Handles : points[pi[h]] = points[h]}

\* For every node its boundary and how often each coordinate pair is stored
\* in it.
Held(T) ==
    {<<n, T[n].m_boundary,
       [p \in PointChoices |->
            Cardinality({h \in T[n].m_points : points[h] = AsPoint(p)})]>> :
        n \in DOMAIN T}

\* C11: a second run that inserts the same coordinates in the same order
\* through differently ordered handles into an empty tree with the same root
\* boundary and capacity ends with the same nodes, the same boundaries and
\* the same coordinates in every node as this tree.
C11_SameCoordinatesSameTree ==
    (HasTree /\ EachOnce /\ ~thrown) =>
        LET S == {h \in Handles : calls[h] = 1}
            empty == (Root :> new_node(nodes[Root].m_boundary))
        IN  \A q \in Orders(S) : \A pi \in Relabelings :
                LET r1 == AddInOrder(empty, q, 1)
                    r2 == AddInOrder(empty, [i \in DOMAIN q |-> pi[q[i]]], 1)
                IN  (r1.ret = "ok" /\ r1.nodes = nodes /\ r2.ret = "ok")
                        => Held(r2.nodes) = Held(nodes)

\* The place of a child in the order north west, north east, south east,
\* south west.
Rank(q) ==
    CASE q = "m_north_west" -> 1
      [] q = "m_north_east" -> 2
      [] q = "m_south_east" -> 3
      [] q = "m_south_west" -> 4

\* Node a comes before node b in the pre-order: a is above b, or a lies
\* below an earlier child than b where their paths part.
Before(a, b) ==
    \/ Len(a) < Len(b) /\ SubSeq(b, 1, Len(a)) = a
    \/ \E i \in 1..Len(a) :
          /\ i <= Len(b)
          /\ SubSeq(a, 1, i - 1) = SubSeq(b, 1, i - 1)
          /\ Rank(a[i]) < Rank(b[i])

\* The lines of the nodes N of T, one after the other in pre-order.
RECURSIVE PreOrderText(_, _)
PreOrderText(T, N) ==
    IF N = {} THEN ""
    ELSE LET m == CHOOSE x \in N : \A y \in N \ {x} : Before(x, y)
         IN  print_node(T[m]) \o PreOrderText(T, N \ {m})

\* C12: formatting changes no node; when it returns, the text is the line of
\* every node in pre-order, a node before its children and the children in
\* the order north west, north east, south east, south west; formatting
\* again with no call in between writes the same text.
C12_FormatReadOnlyPreOrder ==
    [][ op' = "operator<<" =>
          /\ nodes' = nodes
          /\ ret' = "ok" => out' = PreOrderText(nodes, DOMAIN nodes)
          /\ op = "operator<<" => out' = out /\ ret' = ret ]_vars

C12_Witness ==
    /\ op = "operator<<" /\ ret = "ok"
    /\ IsInternal(nodes[Root])
    /\ \E n \in DOMAIN nodes : n # Root /\ nodes[n].m_points # {}
    /\ out = PreOrderText(nodes, DOMAIN nodes)

\* The child of node n that is first in the order north west, north east,
\* south east, south west among those whose rectangle contains p.
FirstInRedistribution(T, n, p) ==
    IF InRect(T[T[n].m_north_west].m_boundary, p) THEN T[n].m_north_west
    ELSE IF InRect(T[T[n].m_north_east].m_boundary, p) THEN T[n].m_north_east
    ELSE IF InRect(T[T[n].m_south_east].m_boundary, p) THEN T[n].m_south_east
    ELSE T[n].m_south_west

\* C13: when an insert that returns true turns a leaf into a node with four
\* children, every handle the leaf stored is afterwards stored in exactly one
\* node, the first child in the order north west, north east, south east,
\* south west whose boundary contains its point, and the node itself stores
\* none.
C13_SplitMovesEveryHandle ==
    [][ (op' = "add" /\ ret' = "true") =>
          \A n \in DOMAIN nodes :
              (IsLeaf(nodes[n]) /\ IsInternal(nodes'[n])) =>
                  /\ nodes'[n].m_points = {}
                  /\ \A h \in nodes[n].m_points :
                        HoldersOf(nodes', h) =
                            {FirstInRedistribution(nodes', n, points[h])} ]_vars

\* C14: no call ends in the "This should not happen" logic_error, neither
\* from add() nor from split(); every point in the rectangle of a node with
\* four children is in the rectangle of one of the children.
C14_NoChildAcceptedUnreachable ==
    /\ ret # "logic_error"
    /\ \A n \in DOMAIN nodes :
          IsInternal(nodes[n]) =>
              \A p \in Grid(nodes) :
                  InRect(nodes[n].m_boundary, p) => Claiming(nodes, n, p) # {}

\* An insert was passed on by the root to its children and one accepted it,
\* in a tree where a split also handed a stored handle to a child.
C14_Witness ==
    /\ op = "add" /\ ret = "true"
    /\ IsInternal(nodes[Root])
    /\ \E n \in HoldersOf(nodes, arg[1]) : n # Root
    /\ \E h \in Handles : h # arg[1] /\ HoldersOf(nodes, h) # {}

Slots == {"m_north_west", "m_north_east", "m_south_west", "m_south_east"}

\* C15: every node stays in the tree with the boundary it has; a node with
\* four children keeps these children and stores no handle in any later
\* state; a child is never replaced by a fresh one (a node that is a leaf
\* before and after a step loses no handle).
C15_InternalForever ==
    [][ \A n \in DOMAIN nodes :
          /\ n \in DOMAIN nodes'
          /\ nodes'[n].m_boundary = nodes[n].m_boundary
          /\ IsInternal(nodes[n]) =>
                /\ \A q \in Slots : nodes'[n][q] = nodes[n][q]
                /\ nodes'[n].m_points = {}
          /\ (IsLeaf(nodes[n]) /\ IsLeaf(nodes'[n])) =>
                nodes[n].m_points \subseteq nodes'[n].m_points ]_vars

\* The leaf an insert of p ends in: from node n down through the first child
\* in the order north west, north east, south west, south east whose
\* rectangle contains p.
RECURSIVE TargetLeaf(_, _, _)
TargetLeaf(T, n, p) ==
    IF ~IsInternal(T[n]) THEN n
    ELSE IF InRect(T[T[n].m_north_west].m_boundary, p)
         THEN TargetLeaf(T, T[n].m_north_west, p)
    ELSE IF InRect(T[T[n].m_north_east].m_boundary, p)
         THEN TargetLeaf(T, T[n].m_north_east, p)
    ELSE IF InRect(T[T[n].m_south_west].m_boundary, p)
         THEN TargetLeaf(T, T[n].m_south_west, p)
    ELSE TargetLeaf(T, T[n].m_south_east, p)

\* An insert of a point in the root's rectangle changes only the leaf it
\* ends in. A leaf with fewer than NodeCapacity handles stores the handle and
\* stays a leaf; a leaf with NodeCapacity handles is split: it ends with its
\* four children, or the split fails with the degenerate-boundary error.
SplitsAtCapacity ==
    ( /\ op' = "add" /\ ~thrown
      /\ InRect(nodes[Root].m_boundary, points[arg'[1]]) ) =>
        LET t == TargetLeaf(nodes, Root, points[arg'[1]])
        IN  /\ \A n \in DOMAIN nodes \ {t} : nodes'[n] = nodes[n]
            /\ IF Cardinality(nodes[t].m_points) < NodeCapacity
               THEN /\ ret' = "true"
                    /\ nodes' = [nodes EXCEPT ![t].m_points = @ \cup {arg'[1]}]
               ELSE \/ ret' = "true" /\ IsInternal(nodes'[t])
                    \/ ret' = "degenerate" /\ ~IsInternal(nodes'[t])

\* In a step add(it), a leaf gets children only when it stored NodeCapacity
\* handles and its rectangle contains the point.
SplitsOnlyAtCapacity ==
    op' = "add" =>
        \A n \in DOMAIN nodes :
            (n \in DOMAIN nodes' /\ IsLeaf(nodes[n]) /\ ~IsLeaf(nodes'[n])) =>
                /\ Cardinality(nodes[n].m_points) = NodeCapacity
                /\ InRect(nodes[n].m_boundary, points[arg'[1]])

\* C16: an insert splits a leaf exactly when the point is in the leaf's
\* rectangle and the leaf stores NodeCapacity handles: an insert below
\* capacity stores the handle in the leaf without a split, an insert at
\* capacity splits the leaf, and an insert gives children to no other leaf.
C16_SplitExactlyAtCapacity == [][SplitsAtCapacity /\ SplitsOnlyAtCapacity]_vars

\* NodeCapacity + 1 different handles were inserted into the empty leaf root,
\* every call returned true, and the last one split the root: its four
\* children are leaves.
C16_Witness ==
    /\ op = "add" /\ ret = "true" /\ ~thrown /\ splits = 0
    /\ NodeCapacity = MaxCapacity
    /\ EachOnce /\ accepted = NodeCapacity + 1
    /\ IsInternal(nodes[Root])
    /\ \A n \in DOMAIN nodes : n # Root => IsLeaf(nodes[n])

\* How a call of add(it) ends for its caller: it returns a bool or it throws
\* one of the exceptions of check_boundary() and add().
Returned == {"true", "false"}

Raised == {"degenerate", "inverted", "logic_error"}

\* C17: every insert ends with a bool or an error; the nodes whose add() ran
\* are at most one on every level of the tree; and it makes at most one
\* split: it changes at most one node that was there before, and the nodes it
\* adds are at most four, all leaf children of that node (no insert of equal
\* coordinates makes a fresh child split again).
C17_InsertEndsAfterOneSplit ==
    [][ op' = "add" =>
          LET visited == add_visits(nodes, Root, arg'[1], NDEBUG)
              changed == {n \in DOMAIN nodes : nodes'[n] # nodes[n]}
              fresh   == DOMAIN nodes' \ DOMAIN nodes
          IN  /\ ret' \in Returned \cup Raised
              /\ \A a, b \in visited : Len(a) = Len(b) => a = b
              /\ Cardinality(changed) <= 1
              /\ Cardinality(fresh) <= 4
              /\ \A m \in fresh :
                    /\ SubSeq(m, 1, Len(m) - 1) \in changed
                    /\ IsLeaf(nodes'[m]) ]_vars

\* C18: an insert that ends in the degenerate- or inverted-boundary error
\* leaves every node as it was and adds none, and no call ends in the failed
\* all-or-none assertion of has_children().
C18_FailedSplitLeavesTree ==
    [][ /\ (op' = "add" /\ ret' \in {"degenerate", "inverted"}) => nodes' = nodes
        /\ ret' # "assert" ]_vars

EachHandleInAtMostOneNode(T) ==
    \A h \in Handles : Cardinality(HoldersOf(T, h)) <= 1

\* C19: an insert of a handle that the tree stores returns true and changes
\* no node, and after every step every handle is stored in at most one node.
C19_InsertIdempotentPerHandle ==
    [][ /\ (op' = "add" /\ HoldersOf(nodes, arg'[1]) # {}) =>
              ret' = "true" /\ nodes' = nodes
        /\ EachHandleInAtMostOneNode(nodes') ]_vars

\* C20: the constructor from a range that is not empty and whose points all
\* have the same x or all have the same y, a single point included, ends in
\* the degenerate-boundary error and leaves no tree.
C20_FlatRangeIsDegenerate ==
    op = "quad_tree_range" =>
        LET R == arg[1]..(arg[2] - 1)
        IN  ( /\ R # {}
              /\ \/ \A h, k \in R : points[h][1] = points[k][1]
                 \/ \A h, k \in R : points[h][2] = points[k][2] )
            => ret = "degenerate" /\ ~HasTree

\* A range of several different points on one vertical line was refused.
C20_Witness ==
    /\ op = "quad_tree_range" /\ ret = "degenerate" /\ ~HasTree
    /\ arg[2] - arg[1] >= 2
    /\ \A h, k \in arg[1]..(arg[2] - 1) : points[h][1] = points[k][1]
    /\ \E h, k \in arg[1]..(arg[2] - 1) : points[h][2] # points[k][2]

====
